---- MODULE Spec2Model ----
(***************************************************************************)
(* Model of the AhoSearcher wasm binding (src/src/lib.rs).                 *)
(*                                                                         *)
(* AhoSearcher::new decodes a host value into a Vec<String> and builds an  *)
(* Aho-Corasick automaton with MatchKind::Standard; AhoSearcher::search    *)
(* drives ac.find_iter(haystack) and pushes one MatchResult per item, then *)
(* encodes the vector for the host.  The automaton (trie, failure links,   *)
(* per-state match lists) and the find_iter iterator are modelled by what  *)
(* the calls at lib.rs:53-56 and lib.rs:73 compute.                        *)
(*                                                                         *)
(* Strings are sequences of bytes (integers); host strings are sequences   *)
(* of UTF-16 code units, converted to UTF-8 at the boundary.               *)
(***************************************************************************)
EXTENDS Integers, Sequences, FiniteSets, TLC

VARIABLES searchers, built, calls, last_new

vars == <<searchers, built, calls, last_new>>

----------------------------------------------------------------------------
(* Bounds of the model *)

\* longest pattern of the enumerated pattern lists, in code units
MaxPatLen == 2
\* patterns the automaton builder accepts (the library's pattern-id limit,
\* scaled down so that the build-error branch of `new` is reachable)
PatternLimit == 4
\* longest enumerated pattern list
MaxPatterns == 2
\* longest enumerated haystack, in code units
MaxHayLen == 3
\* bounds of the two-searcher, two-call specification
ConcPatLen == 1
ConcHayLen == 1

\* code units of the enumerated strings: "h" and "e"
Alphabet == {104, 101}

RECURSIVE StringsUpTo(_)
StringsUpTo(n) ==
    IF n = 0 THEN { << >> }
    ELSE LET shorter == StringsUpTo(n - 1)
         IN shorter \cup { Append(w, c) : w \in shorter, c \in Alphabet }

RECURSIVE SeqsUpTo(_, _)
SeqsUpTo(S, n) ==
    IF n = 0 THEN { << >> }
    ELSE LET shorter == SeqsUpTo(S, n - 1)
         IN shorter \cup { Append(w, x) : w \in shorter, x \in S }

----------------------------------------------------------------------------
(* Host values crossing the boundary *)

JsString(units) == [t |-> "string", v |-> units]
JsNumber == [t |-> "number", v |-> << >>]
JsArray(elems) == [t |-> "array", v |-> elems]

\* UTF-8 encoding of one code unit below 0x800
utf8_unit(c) == IF c < 128 THEN <<c>> ELSE <<192 + (c \div 64), 128 + (c % 64)>>

RECURSIVE utf8(_)
utf8(units) == IF units = << >> THEN << >> ELSE utf8_unit(Head(units)) \o utf8(Tail(units))

Ok(x) == [ok |-> TRUE, value |-> x, err |-> "none"]
Err(kind) == [ok |-> FALSE, value |-> << >>, err |-> kind]

\* lenient decoding: silently drops the elements that are not strings
from_value_lenient(js) ==
    IF js.t # "array" THEN Err("InvalidPatternInput")
    ELSE Ok(LET strs == SelectSeq(js.v, LAMBDA x : x.t = "string")
            IN [k \in 1..Len(strs) |-> utf8(strs[k].v)])

\* serde_wasm_bindgen::from_value::<Vec<String>>
from_value(js) ==
    IF js.t = "array" /\ \A k \in 1..Len(js.v) : js.v[k].t = "string"
    THEN Ok([k \in 1..Len(js.v) |-> utf8(js.v[k].v)])
    ELSE Err("InvalidPatternInput")

----------------------------------------------------------------------------
(* The automaton: AhoCorasickBuilder::new().match_kind(Standard).build()   *)

START == 0
FAIL == -1

NewState(d) == [trans |-> {}, fail |-> START, matches |-> << >>, depth |-> d]

\* explicit transition of state sid on byte b; the start state loops on
\* every byte without one; FAIL elsewhere
follow_transition(states, sid, b) ==
    LET links == { t \in states[sid + 1].trans : t.byte = b }
    IN IF links # {} THEN (CHOOSE t \in links : TRUE).next
       ELSE IF sid = START THEN START ELSE FAIL

RECURSIVE next_state(_, _, _)
next_state(states, sid, b) ==
    LET next == follow_transition(states, sid, b)
    IN IF next # FAIL THEN next ELSE next_state(states, states[sid + 1].fail, b)

\* walk / extend the trie along pat[k..]; yields the states and the last one
RECURSIVE add_path(_, _, _, _)
add_path(states, sid, pat, k) ==
    IF k > Len(pat) THEN [states |-> states, sid |-> sid]
    ELSE LET b == pat[k]
             links == { t \in states[sid + 1].trans : t.byte = b }
         IN IF links # {}
            THEN add_path(states, (CHOOSE t \in links : TRUE).next, pat, k + 1)
            ELSE LET new == Len(states)
                     linked == [states EXCEPT ![sid + 1].trans = @ \cup {[byte |-> b, next |-> new]}]
                 IN add_path(Append(linked, NewState(states[sid + 1].depth + 1)), new, pat, k + 1)

\* records pattern pid at the end of a state's match list
add_match(states, sid, pid) == [states EXCEPT ![sid + 1].matches = Append(@, pid)]

RECURSIVE build_trie(_, _, _)
build_trie(states, patterns, k) ==
    IF k > Len(patterns) THEN states
    ELSE LET walked == add_path(states, START, patterns[k], 1)
         IN build_trie(add_match(walked.states, walked.sid, k - 1), patterns, k + 1)

\* the links of a state as a sequence, by increasing byte
RECURSIVE link_seq(_)
link_seq(links) ==
    IF links = {} THEN << >>
    ELSE LET first == CHOOSE t \in links : \A o \in links : t.byte <= o.byte
         IN <<first.next>> \o link_seq(links \ {first})

\* failure target of the child reached from state id on byte b
fail_target(states, id, b) ==
    IF id = START THEN START ELSE next_state(states, states[id + 1].fail, b)

\* breadth-first: sets the failure link of every child of the head of the
\* queue and appends the failure target's matches to the child's own
RECURSIVE fill_failure_transitions(_, _)
fill_failure_transitions(states, queue) ==
    IF queue = << >> THEN states
    ELSE LET id == Head(queue)
             links == states[id + 1].trans
             filled == [n \in 1..Len(states) |->
                          IF \E t \in links : t.next = n - 1
                          THEN LET t == CHOOSE l \in links : l.next = n - 1
                                   f == fail_target(states, id, t.byte)
                               IN [states[n] EXCEPT !.fail = f,
                                                    !.matches = @ \o states[f + 1].matches]
                          ELSE states[n]]
         IN fill_failure_transitions(filled, Tail(queue) \o link_seq(links))

\* also rejects an empty pattern list
build_error_on_empty(patterns) == Len(patterns) = 0 \/ Len(patterns) > PatternLimit

\* the builder's only failure: more patterns than it can number
build_error(patterns) == Len(patterns) > PatternLimit

\* AhoCorasickBuilder::build
build(patterns) ==
    IF build_error(patterns) THEN Err("AutomatonBuildFailure")
    ELSE Ok([states |-> fill_failure_transitions(build_trie(<<NewState(0)>>, patterns, 1), <<START>>),
             pattern_lens |-> [k \in 1..Len(patterns) |-> Len(patterns[k])]])

----------------------------------------------------------------------------
(* Searching: ac.find_iter(haystack)                                       *)

NoMatch == [pattern |-> -1, start |-> 0, end |-> 0]

is_match(ac, sid) == ac.states[sid + 1].matches # << >>

\* the index-th match of state sid, ending at offset at
get_match(ac, sid, index, at) ==
    LET pid == ac.states[sid + 1].matches[index + 1]
    IN [pattern |-> pid, start |-> at - ac.pattern_lens[pid + 1], end |-> at]

\* the scan of the haystack from offset at in state sid; standard match
\* kind stops at the first match state it enters
RECURSIVE find_fwd(_, _, _, _)
find_fwd(ac, haystack, sid, at) ==
    IF at >= Len(haystack) THEN NoMatch
    ELSE LET next == next_state(ac.states, sid, haystack[at + 1])
         IN IF is_match(ac, next) THEN get_match(ac, next, 0, at + 1)
            ELSE find_fwd(ac, haystack, next, at + 1)

\* one search of haystack[start..]
try_find(ac, haystack, start) ==
    IF start > Len(haystack) THEN NoMatch
    ELSE IF is_match(ac, START) THEN get_match(ac, START, 0, start)
    ELSE find_fwd(ac, haystack, START, start)

\* the iterator resumes where the matches recorded so far end
FindIter_resume(haystack) ==
    LET ends == UNION { { calls[c].matches[k].end : k \in 1..Len(calls[c].matches) } : c \in DOMAIN calls }
    IN [start |-> IF ends = {} THEN 0 ELSE CHOOSE x \in ends : \A y \in ends : y <= x,
        last_match_end |-> -1]

\* a fresh iterator over the haystack
FindIter_new(haystack) == [start |-> 0, last_match_end |-> -1]

\* gives up at an empty match that repeats the last end
give_up_at_empty_match(ac, haystack, it) == [m |-> NoMatch, start |-> it.start]

\* an empty match at the end of the last match: search again one byte on
handle_overlapping_empty_match(ac, haystack, it) ==
    IF it.start > Len(haystack) THEN [m |-> NoMatch, start |-> it.start]
    ELSE [m |-> try_find(ac, haystack, it.start + 1), start |-> it.start + 1]

\* resumes one byte after the start of the match
resume_after_start(m) == m.start + 1

\* where the iterator resumes after reporting m
resume_at(m) == m.end

\* FindIter::next: the next match and the iterator after it
FindIter_next(ac, haystack, it) ==
    LET first == try_find(ac, haystack, it.start)
        found == IF first # NoMatch /\ first.start = first.end /\ first.end = it.last_match_end
                 THEN handle_overlapping_empty_match(ac, haystack, it).m
                 ELSE first
    IN IF found = NoMatch THEN [m |-> NoMatch, it |-> it]
       ELSE [m |-> found, it |-> [start |-> resume_at(found), last_match_end |-> found.end]]

\* start and end exchanged
MatchResult_swapped(mat) == [pattern_index |-> mat.pattern, start |-> mat.end, end |-> mat.start]

\* the record pushed for one match
MatchResult(mat) == [pattern_index |-> mat.pattern, start |-> mat.start, end |-> mat.end]

\* puts the record in front
push_front(matches, rec) == <<rec>> \o matches

\* Vec::push
push(matches, rec) == Append(matches, rec)

\* serde_wasm_bindgen::to_value(&matches): an array of objects with the
\* three fields as numbers
to_value(matches) ==
    Ok([k \in 1..Len(matches) |->
          [pattern_index |-> matches[k].pattern_index, start |-> matches[k].start, end |-> matches[k].end]])

----------------------------------------------------------------------------
(* State *)

NoSearcher == [live |-> FALSE, ac |-> << >>]
NoPatterns == <<-1>>
NoIter == [start |-> 0, last_match_end |-> -1]
IdleCall == [pc |-> "idle", this |-> 0, haystack |-> << >>, it |-> NoIter,
             matches |-> << >>, ret |-> Err("none")]
NoNew == [called |-> FALSE, input |-> JsNumber, result |-> Err("none"), handle |-> 0]

Slots == 1..2
Calls == 1..2

Init ==
    /\ searchers = [x \in Slots |-> NoSearcher]
    /\ built = [x \in Slots |-> NoPatterns]
    /\ calls = [c \in Calls |-> IdleCall]
    /\ last_new = NoNew

\* AhoSearcher::new(js) returns Err at either `?`: no searcher.  n is the
\* number of searchers the scenario constructs.
NewFails(n, inputs) ==
    /\ \E x \in 1..n : ~searchers[x].live
    /\ \E js \in inputs :
          LET decoded == from_value(js)
          IN /\ ~decoded.ok \/ build_error(decoded.value)
             /\ last_new' = [called |-> TRUE, input |-> js, handle |-> 0,
                             result |-> IF decoded.ok THEN Err("AutomatonBuildFailure") ELSE decoded]
    /\ UNCHANGED <<searchers, built, calls>>

\* AhoSearcher::new(js) returns Ok(AhoSearcher { ac }), held as handle x
NewSucceeds(x, inputs) ==
    /\ ~searchers[x].live
    /\ \A y \in Slots : y < x => searchers[y].live
    /\ \E js \in inputs :
          LET decoded == from_value(js)
          IN /\ decoded.ok
             /\ ~build_error(decoded.value)
             /\ searchers' = [searchers EXCEPT ![x] = [live |-> TRUE, ac |-> build(decoded.value).value]]
             /\ built' = [built EXCEPT ![x] = decoded.value]
             /\ last_new' = [called |-> TRUE, input |-> js, handle |-> x, result |-> Ok(<< >>)]
    /\ UNCHANGED calls

\* searcher.search(js_haystack) is entered: the haystack arrives as UTF-8
SearchBegin(c, x, js_haystack) ==
    /\ calls[c].pc \in {"idle", "done"}
    /\ searchers[x].live
    /\ calls' = [calls EXCEPT ![c] = [pc |-> "iter", this |-> x, haystack |-> utf8(js_haystack),
                                      it |-> FindIter_new(utf8(js_haystack)),
                                      matches |-> << >>, ret |-> Err("none")]]
    /\ UNCHANGED <<searchers, built, last_new>>

\* one turn of `for mat in self.ac.find_iter(haystack)`
SearchNext(c) ==
    /\ calls[c].pc = "iter"
    /\ LET step == FindIter_next(searchers[calls[c].this].ac, calls[c].haystack, calls[c].it)
       IN calls' = [calls EXCEPT ![c] =
                      IF step.m = NoMatch THEN [@ EXCEPT !.pc = "collected"]
                      ELSE [@ EXCEPT !.it = step.it,
                                     !.matches = push(@, MatchResult(step.m))]]
    /\ UNCHANGED <<searchers, built, last_new>>

\* the vector is encoded and returned
SearchReturn(c) ==
    /\ calls[c].pc = "collected"
    /\ calls' = [calls EXCEPT ![c] = [@ EXCEPT !.pc = "done", !.ret = to_value(calls[c].matches)]]
    /\ UNCHANGED <<searchers, built, last_new>>

----------------------------------------------------------------------------
(* Inputs *)

\* "he", "she", "his", "hers" and "ushers"
ushers_patterns == << <<104, 101>>, <<115, 104, 101>>, <<104, 105, 115>>, <<104, 101, 114, 115>> >>
ushers == <<117, 115, 104, 101, 114, 115>>

JsStrings(S) == { JsString(w) : w \in S }
JsStringArray(strs) == JsArray([k \in 1..Len(strs) |-> JsString(strs[k])])

\* more patterns than the builder takes
OverLimit(w) == JsStringArray([k \in 1..(PatternLimit + 1) |-> w])

InvalidInputs ==
    { JsNumber, JsArray(<<JsNumber>>), JsArray(<<JsString(<<104>>), JsNumber>>),
      JsArray(<<JsNumber, JsString(<<101>>)>>) }

\* one searcher, one call at a time
SeqInputs ==
    { JsArray(a) : a \in SeqsUpTo(JsStrings(StringsUpTo(MaxPatLen)), MaxPatterns) }
      \cup { JsStringArray(ushers_patterns), JsStringArray(<< <<233>> >>),
             JsStringArray(<< <<101>>, <<104, 101>>, <<101>> >>),
             JsStringArray(<< <<104>>, << >>, <<104>> >>) }
      \cup { OverLimit(<<104>>) } \cup InvalidInputs
SeqHaystacks == StringsUpTo(MaxHayLen) \cup { ushers, <<104, 233>> }

\* two searchers, two calls in flight
ConcInputs ==
    { JsArray(a) : a \in SeqsUpTo(JsStrings(StringsUpTo(ConcPatLen)), 1) }
      \cup { JsStringArray(<< <<104, 101>>, <<101>> >>) }
      \cup { OverLimit(<<104>>) } \cup InvalidInputs
ConcHaystacks == StringsUpTo(ConcHayLen) \cup { <<104, 101>> }

----------------------------------------------------------------------------
(* Specifications *)

NextOf(n, nc, inputs, haystacks) ==
    \/ NewFails(n, inputs)
    \/ \E x \in 1..n : NewSucceeds(x, inputs)
    \/ \E c \in 1..nc, x \in 1..n, hay \in haystacks : SearchBegin(c, x, hay)
    \/ \E c \in 1..nc : SearchNext(c)
    \/ \E c \in 1..nc : SearchReturn(c)

Next == NextOf(1, 1, SeqInputs, SeqHaystacks)
Spec == Init /\ [][Next]_vars

NextConc == NextOf(2, 2, ConcInputs, ConcHaystacks)
SpecConc == Init /\ [][NextConc]_vars

TypeOK ==
    /\ \A x \in Slots : searchers[x].live \in BOOLEAN
    /\ \A c \in Calls : calls[c].pc \in {"idle", "iter", "collected", "done"}

----------------------------------------------------------------------------
(* Properties *)

Done(c) == calls[c].pc = "done"
\* the pattern list, the haystack bytes and the returned records of a call
PatternsOf(c) == built[calls[c].this]
HaystackOf(c) == calls[c].haystack
RecordsOf(c) == calls[c].ret.value

Rec(p, st, en) == [pattern_index |-> p, start |-> st, end |-> en]

\* pat occurs in hay at byte offset st
Occurs(pat, hay, st) ==
    /\ st + Len(pat) <= Len(hay)
    /\ \A k \in 1..Len(pat) : hay[st + k] = pat[k]

Count(recs, rec) == Cardinality({ k \in 1..Len(recs) : recs[k] = rec })

IsStringArray(js) == js.t = "array" /\ \A k \in 1..Len(js.v) : js.v[k].t = "string"

\* the automaton state after the first n bytes of hay, without restarts
RECURSIVE state_after(_, _, _)
state_after(ac, hay, n) ==
    IF n = 0 THEN START ELSE next_state(ac.states, state_after(ac, hay, n - 1), hay[n])

\* x stands before y in the list
Before(list, x, y) ==
    \E a, b \in 1..Len(list) : a < b /\ list[a] = x /\ list[b] = y

\* C1: every occurrence of every pattern in the haystack, overlapping ones
\* included, is returned as exactly one record
C1_Completeness ==
    \A c \in Calls : Done(c) =>
        \A p \in 1..Len(PatternsOf(c)), st \in 0..Len(HaystackOf(c)) :
            Occurs(PatternsOf(c)[p], HaystackOf(c), st) =>
                Count(RecordsOf(c), Rec(p - 1, st, st + Len(PatternsOf(c)[p]))) = 1

\* C2: ["he","she","his","hers"] searched in "ushers" returns she [1,4),
\* he [2,4), hers [2,6), in this order
C2_Ushers ==
    \A c \in Calls :
        (Done(c) /\ PatternsOf(c) = ushers_patterns /\ HaystackOf(c) = ushers) =>
            RecordsOf(c) = <<Rec(1, 1, 4), Rec(0, 2, 4), Rec(3, 2, 6)>>

C4_Soundness ==
    \A c \in Calls : Done(c) =>
        \A k \in 1..Len(RecordsOf(c)) :
            LET rec == RecordsOf(c)[k]
            IN /\ 0 <= rec.pattern_index /\ rec.pattern_index < Len(PatternsOf(c))
               /\ 0 <= rec.start /\ rec.start <= rec.end /\ rec.end <= Len(HaystackOf(c))
               /\ rec.end - rec.start = Len(PatternsOf(c)[rec.pattern_index + 1])
               /\ Occurs(PatternsOf(c)[rec.pattern_index + 1], HaystackOf(c), rec.start)

C4_Witness ==
    \E c \in Calls : Done(c) /\ Len(PatternsOf(c)) >= 2
        /\ \E k \in 1..Len(RecordsOf(c)) :
              RecordsOf(c)[k].pattern_index > 0 /\ RecordsOf(c)[k].end - RecordsOf(c)[k].start >= 2

\* C5: the single empty pattern on a non-empty haystack of L bytes gives
\* exactly L+1 records, one with start = end = k for each k in 0..L
C5_EmptyPattern ==
    \A c \in Calls :
        (Done(c) /\ PatternsOf(c) = << << >> >> /\ Len(HaystackOf(c)) > 0) =>
            /\ Len(RecordsOf(c)) = Len(HaystackOf(c)) + 1
            /\ \A k \in 0..Len(HaystackOf(c)) : Count(RecordsOf(c), Rec(0, k, k)) = 1

C5_Witness ==
    \E c \in Calls : Done(c) /\ PatternsOf(c) = << << >> >> /\ Len(HaystackOf(c)) >= 3

\* C6: a pattern equal to the whole haystack is returned exactly once, as
\* [0, len(H)), whatever else the list holds
C6_WholeHaystack ==
    \A c \in Calls : Done(c) =>
        \A p \in 1..Len(PatternsOf(c)) : PatternsOf(c)[p] = HaystackOf(c) =>
            /\ Count(RecordsOf(c), Rec(p - 1, 0, Len(HaystackOf(c)))) = 1
            /\ \A k \in 1..Len(RecordsOf(c)) :
                  RecordsOf(c)[k].pattern_index = p - 1 => RecordsOf(c)[k] = Rec(p - 1, 0, Len(HaystackOf(c)))

\* C7: construction from the empty list succeeds, and every search on such
\* a searcher returns no record
C7_EmptyList ==
    /\ (last_new.called /\ last_new.input = JsArray(<< >>)) =>
           (last_new.result.ok /\ last_new.handle \in Slots /\ searchers[last_new.handle].live)
    /\ \A c \in Calls : (Done(c) /\ PatternsOf(c) = << >>) =>
           (calls[c].ret.ok /\ RecordsOf(c) = << >>)

C7_Witness ==
    /\ last_new.called /\ last_new.input = JsArray(<< >>)
    /\ \E c \in Calls : Done(c) /\ PatternsOf(c) = << >> /\ Len(HaystackOf(c)) >= 2

\* C8: no step of a search changes a searcher, and two finished calls with
\* equal pattern lists and equal haystacks returned equal record sequences
C8_SearchersKept == \A x \in Slots : searchers[x].live => searchers'[x] = searchers[x]
C8_SameResults ==
    \A c, d \in Calls :
        (Done(c) /\ Done(d) /\ PatternsOf(c) = PatternsOf(d) /\ HaystackOf(c) = HaystackOf(d)) =>
            calls[c].ret = calls[d].ret
C8_Repeatable == [][C8_SearchersKept /\ C8_SameResults']_vars

C8_Witness ==
    /\ Done(1) /\ Done(2)
    /\ calls[1].this # calls[2].this
    /\ PatternsOf(1) = PatternsOf(2) /\ HaystackOf(1) = HaystackOf(2)
    /\ Len(RecordsOf(1)) >= 2

\* C9: new returns a searcher exactly when the input is an array of strings
\* that the builder accepts; otherwise it returns an error and no handle,
\* and a failed construction leaves every searcher as it was
C9_Outcome ==
    last_new.called =>
        /\ last_new.result.ok <=> (IsStringArray(last_new.input) /\ Len(last_new.input.v) <= PatternLimit)
        /\ ~IsStringArray(last_new.input) => last_new.result.err = "InvalidPatternInput"
        /\ ~last_new.result.ok => last_new.handle = 0
        /\ last_new.result.ok =>
              /\ last_new.handle \in Slots
              /\ searchers[last_new.handle].live
              /\ Len(searchers[last_new.handle].ac.pattern_lens) = Len(last_new.input.v)
C9_FailureKeeps ==
    (last_new' # last_new /\ ~last_new'.result.ok) => (searchers' = searchers /\ built' = built)
C9_AllOrNothing == [][C9_Outcome' /\ C9_FailureKeeps]_vars

C9_Witness ==
    /\ last_new.called /\ ~last_new.result.ok
    /\ last_new.input.t = "array" /\ Len(last_new.input.v) = 2
    /\ searchers[1].live /\ ~searchers[2].live

====
